---- MODULE Spec2Model ----
(***************************************************************************)
(* Gomoku: board queries, win/draw detector, static evaluator, candidate   *)
(* move generator, alpha-beta minimax and the GomokuGUI driver, modelled   *)
(* from src/Gomoku.py.                                                     *)
(*                                                                         *)
(* A board is the list of lists of the source: board[x][y] of the source   *)
(* is board[x+1][y+1] here (TLA+ sequences start at 1).                    *)
(***************************************************************************)
EXTENDS Integers, Sequences, FiniteSets, TLC

BOARD_SIZE == 15
WIN_LEN == 5
EMPTY == 0
BLACK == 1
WHITE == 2
DIRECTIONS == << <<1, 0>>, <<0, 1>>, <<1, 1>>, <<1, -1>> >>

\* game_over's return values: a player on a win, 'draw', or None.
DRAW == 3
NONE == 0

\* math.inf: compared with integer scores only; every score the evaluator
\* can produce is below BOARD_SIZE^2 * 4 * 100000 = 90,000,000.
INF == 2000000000

Coords == 0 .. (BOARD_SIZE - 1)

in_bounds(x, y) == 0 <= x /\ x < BOARD_SIZE /\ 0 <= y /\ y < BOARD_SIZE

Cell(board, x, y) == board[x + 1][y + 1]

SetCell(board, x, y, v) == [board EXCEPT ![x + 1][y + 1] = v]

\* A board given cell by cell, as the list of lists of the source.
Grid(f(_, _)) ==
    SubSeq([x \in 1 .. BOARD_SIZE |->
               SubSeq([y \in 1 .. BOARD_SIZE |-> f(x - 1, y - 1)], 1, BOARD_SIZE)],
           1, BOARD_SIZE)

create_board == LET f(x, y) == EMPTY IN Grid(f)

Opponent(player) == IF player = WHITE THEN BLACK ELSE WHITE

(***************************************************************************)
(* check_five: the inner while loop, counting the stones of player from    *)
(* (nx, ny) onwards in direction (sx, sy).                                 *)
(***************************************************************************)
RECURSIVE CountRun(_, _, _, _, _, _)
CountRun(board, nx, ny, sx, sy, player) ==
    IF in_bounds(nx, ny) /\ Cell(board, nx, ny) = player
    THEN 1 + CountRun(board, nx + sx, ny + sy, sx, sy, player)
    ELSE 0

\* check_five counting the neighbours of (x, y) without the stone itself.
LineCountNoSelf(board, x, y, d, player) ==
    LET dx == DIRECTIONS[d][1]
        dy == DIRECTIONS[d][2]
    IN  CountRun(board, x + dx, y + dy, dx, dy, player)
          + CountRun(board, x - dx, y - dy, -dx, -dy, player)

LineCount(board, x, y, d, player) ==
    LET dx == DIRECTIONS[d][1]
        dy == DIRECTIONS[d][2]
    IN  1 + CountRun(board, x + dx, y + dy, dx, dy, player)
          + CountRun(board, x - dx, y - dy, -dx, -dy, player)

check_five(board, x, y, player) ==
    \E d \in 1 .. Len(DIRECTIONS) : LineCount(board, x, y, d, player) >= WIN_LEN

Full(board) == \A x \in Coords : \A y \in Coords : Cell(board, x, y) # EMPTY

\* game_over scans the cells x * BOARD_SIZE + y in ascending order (rows outer,
\* columns inner) and returns at the first stone that check_five accepts.
game_over(board) ==
    LET won == {i \in 0 .. (BOARD_SIZE * BOARD_SIZE - 1) :
                   LET p == Cell(board, i \div BOARD_SIZE, i % BOARD_SIZE)
                   IN  p # EMPTY /\ check_five(board, i \div BOARD_SIZE, i % BOARD_SIZE, p)}
    IN  IF won # {}
        THEN LET i == CHOOSE i \in won : \A j \in won : i <= j
             IN  Cell(board, i \div BOARD_SIZE, i % BOARD_SIZE)
        ELSE IF Full(board) THEN DRAW ELSE NONE

\* line_score with a fourth branch for windows closed at both ends.
line_score_closed(cnt, open_ends) ==
    IF cnt >= WIN_LEN THEN 100000
    ELSE IF open_ends = 0 THEN 0
    ELSE IF cnt = 4 THEN (IF open_ends = 2 THEN 10000 ELSE 1000)
    ELSE IF cnt = 3 THEN (IF open_ends = 2 THEN 500 ELSE 100)
    ELSE IF cnt = 2 THEN (IF open_ends = 2 THEN 10 ELSE 2)
    ELSE 0

line_score(cnt, open_ends) ==
    IF cnt >= WIN_LEN THEN 100000
    ELSE IF cnt = 4 THEN (IF open_ends = 2 THEN 10000 ELSE 1000)
    ELSE IF cnt = 3 THEN (IF open_ends = 2 THEN 500 ELSE 100)
    ELSE IF cnt = 2 THEN (IF open_ends = 2 THEN 10 ELSE 2)
    ELSE 0

(***************************************************************************)
(* evaluate_player: the window of WIN_LEN cells from (x, y) in direction d.*)
(* WindowCount is the value of cnt after the inner loop, -1 when the       *)
(* window is skipped.  (x, y) is on the board and the window runs straight,*)
(* so it leaves the board iff its last cell does.                          *)
(***************************************************************************)
WindowCount(board, x, y, d, player) ==
    LET dx == DIRECTIONS[d][1]
        dy == DIRECTIONS[d][2]
    IN  IF ~in_bounds(x + dx * (WIN_LEN - 1), y + dy * (WIN_LEN - 1)) THEN -1
        ELSE LET cell == SubSeq([i \in 1 .. WIN_LEN |->
                                    Cell(board, x + dx * (i - 1), y + dy * (i - 1))],
                                1, WIN_LEN)
             IN  IF \E i \in 1 .. WIN_LEN : cell[i] # player /\ cell[i] # EMPTY
                 THEN -1
                 ELSE Cardinality({i \in 1 .. WIN_LEN : cell[i] = player})

WindowOpenEnds(board, x, y, d) ==
    LET dx == DIRECTIONS[d][1]
        dy == DIRECTIONS[d][2]
        bx == x - dx
        by == y - dy
        ex == x + dx * WIN_LEN
        ey == y + dy * WIN_LEN
    IN  (IF in_bounds(bx, by) /\ Cell(board, bx, by) = EMPTY THEN 1 ELSE 0)
      + (IF in_bounds(ex, ey) /\ Cell(board, ex, ey) = EMPTY THEN 1 ELSE 0)

\* What one window adds to score: nothing when it is skipped (continue).
WindowScore(board, x, y, d, player) ==
    LET cnt == WindowCount(board, x, y, d, player)
    IN  IF cnt = -1 THEN 0
        ELSE line_score(cnt, WindowOpenEnds(board, x, y, d))

\* score after the three loops: the sum of SumByScore's arguments, v times the
\* number of windows that score v.
RECURSIVE SumByScore(_, _, _, _)
SumByScore(scores, scored, board, player) ==
    IF scores = {} THEN 0
    ELSE LET v == CHOOSE v \in scores : TRUE
         IN  v * Cardinality({w \in scored :
                                 WindowScore(board, w[1], w[2], w[3], player) = v})
               + SumByScore(scores \ {v}, scored, board, player)

\* The cells that hold a stone of p.
Stones(b, p) == {c \in Coords \X Coords : Cell(b, c[1], c[2]) = p}

\* The windows of the loops that hold the cell (x, y): they start on the board,
\* up to WIN_LEN - 1 cells before (x, y) in their direction.
WindowsThrough(x, y) ==
    {w \in {<<x - DIRECTIONS[d][1] * i, y - DIRECTIONS[d][2] * i, d>> :
               d \in 1 .. Len(DIRECTIONS), i \in 0 .. (WIN_LEN - 1)} :
        in_bounds(w[1], w[2])}

\* score at the return.  The loops visit every cell and direction; a window
\* without a stone of player ends the inner loop with cnt 0 or -1 and adds
\* nothing, so the sum is taken over the windows through the player's stones.
evaluate_player(board, player) ==
    LET scored == {w \in UNION {WindowsThrough(s[1], s[2]) : s \in Stones(board, player)} :
                      WindowScore(board, w[1], w[2], w[3], player) # 0}
    IN  SumByScore({WindowScore(board, w[1], w[2], w[3], player) : w \in scored},
                   scored, board, player)

evaluate(board, player) ==
    evaluate_player(board, player) - evaluate_player(board, Opponent(player))

(***************************************************************************)
(* get_valid_moves.  ValidMoves is the content of the set moves at the     *)
(* return, whatever the order in which list(moves) enumerates it.          *)
(***************************************************************************)
EmptyNeighbours(board, x, y) ==
    {m \in {<<x + dx, y + dy>> : dx \in {-1, 0, 1}, dy \in {-1, 0, 1}} :
        in_bounds(m[1], m[2]) /\ Cell(board, m[1], m[2]) = EMPTY}

ValidMoves(board) ==
    LET moves == UNION {EmptyNeighbours(board, c[1], c[2]) :
                          c \in {c \in Coords \X Coords : Cell(board, c[1], c[2]) # EMPTY}}
    IN  IF moves = {} THEN {<<BOARD_SIZE \div 2, BOARD_SIZE \div 2>>} ELSE moves

None == <<>>

\* The one element of a singleton.  {F(v) : v \in {e}} evaluates e once and
\* names its value v, where a LET would evaluate e again at every use.
The(S) == CHOOSE v \in S : TRUE

(***************************************************************************)
(* list(moves) enumerates a set of tuples of ints.  CPython keeps the set  *)
(* in an open-addressing hash table and enumerates the slots in ascending  *)
(* order; the slot of a key follows from its hash, the size of the table   *)
(* and the keys added before it.  TupleHash[x * BOARD_SIZE + y + 1] is     *)
(* hash((x, y)) of 64-bit CPython as an unsigned number, in three parts:   *)
(* bits 0..24, bits 25..49, bits 50..63.                                   *)
(***************************************************************************)
PySet_MINSIZE == 8
LINEAR_PROBES == 9
PERTURB_SHIFT == 5

TupleHash ==
   << <<28487783, 22256267, 8871>>, <<16979904, 20447104, 14651>>, <<6796434, 5385586, 6399>>,
      <<28842987, 3576422, 12179>>, <<17335108, 1767259, 1575>>, <<7151638, 4359053, 13613>>,
      <<29198191, 18451009, 15486>>, <<19014721, 21042803, 11140>>, <<7506842, 19233640, 536>>,
      <<30877804, 21825433, 12574>>, <<19369925, 2362958, 14448>>, <<7862046, 553795, 3844>>,
      <<31233008, 3145588, 15882>>, <<19725129, 1336425, 5278>>, <<9541659, 3928219, 932>>,
      <<27958040, 30008553, 11796>>, <<17774570, 32600347, 7450>>, <<6266691, 30791184, 13230>>,
      <<28313244, 11328708, 15104>>, <<18129774, 13920502, 10758>>, <<6621895, 12111339, 154>>,
      <<29992857, 14703132, 12192>>, <<18484978, 28795089, 14065>>, <<6977099, 26985926, 3461>>,
      <<30348061, 29577719, 15499>>, <<18840182, 27768556, 4895>>, <<8656712, 12707038, 13027>>,
      <<30703265, 10897874, 2423>>, <<20519795, 13489668, 14461>>, <<9011916, 11680505, 3857>>,
      <<13364716, 19588678, 4161>>, <<1856837, 126203, 6035>>, <<25227799, 2717996, 1689>>,
      <<13719920, 908833, 7469>>, <<3536450, 3500627, 3123>>, <<25583003, 1691463, 8903>>,
      <<14075124, 15783420, 10776>>, <<3891654, 18375214, 6430>>, <<25938207, 16566050, 12210>>,
      <<15754737, 19157844, 7864>>, <<4246858, 33249801, 9737>>, <<27617820, 2287162, 5392>>,
      <<16109941, 477999, 11172>>, <<4602062, 32223268, 567>>, <<27973024, 17161749, 8699>>,
      <<12849455, 1395900, 1997>>, <<1341576, 33141169, 7776>>, <<24712538, 2178530, 3431>>,
      <<13204659, 16270487, 5304>>, <<3021189, 18862281, 958>>, <<25067742, 17053117, 6738>>,
      <<13559863, 15243954, 12518>>, <<3376393, 182436, 4266>>, <<25422946, 31927704, 10045>>,
      <<15239476, 965066, 5700>>, <<3731597, 32710335, 11479>>, <<27102559, 17648816, 3227>>,
      <<15594680, 15839653, 9007>>, <<4086801, 14030490, 14787>>, <<27457763, 16622283, 10441>>,
      <<31810563, 24530456, 10745>>, <<20302684, 22721293, 141>>, <<10119214, 7659775, 8273>>,
      <<32165767, 5850611, 14053>>, <<20657888, 4041448, 3449>>, <<10474418, 6633242, 15487>>,
      <<32520971, 20725198, 976>>, <<22337501, 23316992, 13014>>, <<10829622, 21507829, 2410>>,
      <<646152, 24099623, 14448>>, <<22692705, 4637147, 16322>>, <<11184826, 2827984, 5718>>,
      <<1001356, 5419778, 1372>>, <<23047909, 3610614, 7152>>, <<12864439, 22103528, 15283>>,
      <<31280820, 32282742, 13670>>, <<19772941, 30473579, 3066>>, <<9589471, 15412061, 11198>>,
      <<31636024, 13602897, 594>>, <<21452554, 16194691, 12632>>, <<9944675, 14385528, 2028>>,
      <<33315637, 32878441, 10159>>, <<21807758, 31069278, 15939>>, <<10299879, 29260115, 5335>>,
      <<116409, 31851909, 989>>, <<22162962, 30042745, 6769>>, <<11979492, 14981227, 14901>>,
      <<471613, 13172064, 4297>>, <<23842575, 15763857, 16335>>, <<12334696, 13954694, 5731>>,
      <<30765559, 14089964, 11506>>, <<20582089, 16681758, 7160>>, <<9074210, 14872595, 12940>>,
      <<31120763, 13063431, 2336>>, <<20937293, 31556345, 10467>>, <<9429414, 29747182, 16247>>,
      <<32800376, 32338975, 11901>>, <<21292497, 30529812, 1297>>, <<9784618, 11067337, 3171>>,
      <<33155580, 13659130, 15209>>, <<21647701, 11849967, 4605>>, <<11464231, 14441761, 259>>,
      <<33510784, 28533717, 2132>>, <<23327314, 31125511, 14170>>, <<11819435, 29316348, 3566>>,
      <<16172235, 3670089, 3871>>, <<4664356, 1860926, 9651>>, <<28035318, 4452719, 5305>>,
      <<16527439, 18544676, 7178>>, <<6343969, 21136470, 2832>>, <<28390522, 19327306, 8612>>,
      <<16882643, 17518143, 14392>>, <<6699173, 2456625, 6140>>, <<28745726, 647461, 11920>>,
      <<18562256, 3239255, 7574>>, <<7054377, 1430092, 13354>>, <<30425339, 19923005, 5101>>,
      <<18917460, 18113842, 10881>>, <<7409581, 16304679, 277>>, <<30780543, 18896472, 12315>>,
      <<15656974, 19031743, 1706>>, <<4149095, 17222580, 7486>>, <<27520057, 19814373, 3140>>,
      <<16012178, 18005210, 8920>>, <<5828708, 2943692, 668>>, <<27875261, 1134528, 6448>>,
      <<16367382, 32879797, 12227>>, <<6183912, 1917159, 7882>>, <<28230465, 16009115, 9755>>,
      <<18046995, 18600909, 5409>>, <<6539116, 16791746, 11189>>, <<29910078, 19383539, 6843>>,
      <<18402199, 33475496, 8716>>, <<6894320, 31666333, 14496>>, <<30265282, 703694, 10151>>,
      <<1063650, 8611868, 10455>>, <<23110203, 6802704, 16235>>, <<12926733, 9394498, 11889>>,
      <<1418854, 23486455, 13762>>, <<23465407, 21677291, 3158>>, <<13281937, 24269085, 15196>>,
      <<1774058, 22459922, 4592>>, <<25145020, 7398403, 12724>>, <<13637141, 5589240, 2120>>,
      <<3453671, 8181034, 14158>>, <<25500224, 6371870, 3554>>, <<13992345, 20463827, 5427>>,
      <<3808875, 23055621, 1081>>, <<25855428, 21246457, 6861>>, <<15671958, 23838251, 2515>>,
      <<533907, 16364154, 13380>>, <<22580460, 14554990, 2776>>, <<12396990, 17146784, 14814>>,
      <<889111, 31238741, 303>>, <<24260073, 276102, 12342>>, <<12752194, 32021371, 1737>>,
      <<2568724, 1058733, 13776>>, <<24615277, 32804001, 3171>>, <<13107398, 13341526, 5045>>,
      <<2923928, 15933320, 699>>, <<24970481, 14124156, 6479>>, <<14787011, 16715950, 2133>>,
      <<3279132, 30807907, 4006>>, <<26650094, 33399700, 16044>>, <<15142215, 31590537, 5440>>,
      <<19495015, 5944278, 5745>>, <<7987136, 4135115, 11525>>, <<31358098, 22628028, 3272>>,
      <<19850219, 20818865, 9052>>, <<9666749, 23410659, 4706>>, <<31713302, 21601495, 10486>>,
      <<20205423, 19792332, 16266>>, <<10021953, 4730814, 8014>>, <<32068506, 2921650, 13794>>,
      <<21885036, 5513444, 9448>>, <<10377157, 3704281, 15228>>, <<32423710, 17796237, 717>>,
      <<22240240, 20388031, 12755>>, <<10732361, 18578868, 2151>>, <<548891, 21170662, 14189>>,
      <<18979754, 21305932, 3580>>, <<7471875, 19496769, 9360>>, <<30842837, 22088562, 5014>>,
      <<19334958, 20279399, 10794>>, <<9151488, 5217881, 2542>>, <<31198041, 3408717, 8322>>,
      <<19690162, 1599554, 14102>>, <<9506692, 4191348, 9756>>, <<31553245, 18283304, 11629>>,
      <<21369775, 20875098, 7283>>, <<9861896, 19065935, 13063>>, <<33232858, 21657728, 8717>>,
      <<21724979, 2195253, 10591>>, <<10217100, 386090, 16371>>, <<33630, 2977884, 12025>>,
      <<18464493, 20766466, 5322>>, <<6956614, 1303991, 7196>>, <<30327576, 3895784, 2850>>,
      <<18819697, 2086621, 8630>>, <<8636227, 4678415, 4284>>, <<30682780, 18770371, 6157>>,
      <<19174901, 16961208, 11937>>, <<8991431, 19553002, 7591>>, <<31037984, 17743838, 13371>>,
      <<20854514, 2682320, 5119>>, <<9346635, 873157, 10899>>, <<32717597, 3464950, 6553>>,
      <<21209718, 1655787, 12333>>, <<9701839, 33401056, 1728>>, <<33072801, 18339537, 9860>>,
      <<3856687, 18638343, 15254>>, <<25903240, 16829179, 4650>>, <<15719770, 19420973, 304>>,
      <<4211891, 33512930, 2177>>, <<27582853, 2550291, 14216>>, <<16074974, 741128, 3612>>,
      <<5891504, 3332922, 15650>>, <<27938057, 17424878, 1139>>, <<16430178, 15615715, 6919>>,
      <<6246708, 18207509, 2573>>, <<28293261, 16398345, 8353>>, <<18109791, 18990139, 4007>>,
      <<6601912, 33082096, 5880>>, <<28648465, 31272932, 11660>>, <<18464995, 310294, 7315>> >>

HashOf(m) == TupleHash[m[1] * BOARD_SIZE + m[2] + 1]

\* Bits 5j .. 5j+4 of a hash.
HashDigit(h, j) ==
    IF j >= 13 THEN 0
    ELSE (h[j \div PERTURB_SHIFT + 1] \div 32^(j % PERTURB_SHIFT)) % 32

\* (hash >> (PERTURB_SHIFT * k)) & mask, for a table of at most 1024 slots.
Perturb(h, k, size) == (HashDigit(h, k) + 32 * HashDigit(h, k + 1)) % size

\* The slot set_add_entry and set_insert_clean give to a key that is not in
\* the table: from slot i, the first free of i .. i + LINEAR_PROBES when that
\* range lies in the table, of i alone otherwise; then the next i.  Slot i of
\* the table is slots[i + 1].
RECURSIVE FreeSlot(_, _, _, _)
FreeSlot(slots, h, i, k) ==
    LET size == Len(slots)
        probes == IF i + LINEAR_PROBES <= size - 1 THEN LINEAR_PROBES ELSE 0
        free == {j \in i .. i + probes : slots[j + 1] = None}
    IN  IF free # {} THEN CHOOSE j \in free : \A o \in free : j <= o
        ELSE FreeSlot(slots, h, (i * 5 + 1 + Perturb(h, k + 1, size)) % size, k + 1)

InsertClean(slots, m) ==
    [slots EXCEPT ![FreeSlot(slots, HashOf(m), Perturb(HashOf(m), 0, Len(slots)), 0) + 1] = m]

RECURSIVE NewSize(_, _)
NewSize(size, minused) ==
    IF size <= minused THEN NewSize(2 * size, minused) ELSE size

\* The keys of a table in the order of its slots.
TableOrder(slots) ==
    LET used == {s \in 1 .. Len(slots) : slots[s] # None}
    IN  [i \in 1 .. Cardinality(used) |->
            slots[CHOOSE s \in used : Cardinality({o \in used : o < s}) = i - 1]]

\* set_table_resize: the keys move to a new table in the order of their slots.
\* The table after keys[lo], ..., keys[hi] are inserted in this order.  The
\* first half of the range is evaluated before the second is entered, which
\* keeps the nesting of the evaluation logarithmic in the length.
RECURSIVE InsertRange(_, _, _, _)
InsertRange(slots, keys, lo, hi) ==
    IF lo > hi THEN slots
    ELSE IF lo = hi THEN InsertClean(slots, keys[lo])
    ELSE The({InsertRange(first, keys, (lo + hi) \div 2 + 1, hi) :
                 first \in {InsertRange(slots, keys, lo, (lo + hi) \div 2)}})

TableResize(slots, minused) ==
    The({InsertRange([s \in 1 .. NewSize(PySet_MINSIZE, minused) |-> None],
                     keys, 1, Len(keys)) : keys \in {TableOrder(slots)}})

\* A set: its table and the number of its keys.
EmptySet == [slots |-> [s \in 1 .. PySet_MINSIZE |-> None], used |-> 0]

\* moves.add(m)
SetAdd(set, m) ==
    IF \E s \in 1 .. Len(set.slots) : set.slots[s] = m THEN set
    ELSE LET slots == InsertClean(set.slots, m)
             used == set.used + 1
         IN  [slots |-> IF used * 5 < (Len(slots) - 1) * 3 THEN slots
                        ELSE TableResize(slots, IF used > 50000 THEN used * 2
                                                ELSE used * 4),
              used |-> used]

\* The stones around cell m.
StonesAround(board, m) ==
    {c \in {<<m[1] + dx, m[2] + dy>> : dx \in {-1, 0, 1}, dy \in {-1, 0, 1}} :
        in_bounds(c[1], c[2]) /\ Cell(board, c[1], c[2]) # EMPTY}

\* The pass through the body of the four loops of get_valid_moves that adds
\* cell m first: the stone is the first of the stones around m in the order
\* of the loops over x and y, and (dx, dy) leads from it to m.
FirstPass(board, m) ==
    LET around == StonesAround(board, m)
        c == CHOOSE c \in around :
                 \A o \in around : c[1] * BOARD_SIZE + c[2] <= o[1] * BOARD_SIZE + o[2]
    IN  (c[1] * BOARD_SIZE + c[2]) * 9 + (m[1] - c[1] + 1) * 3 + (m[2] - c[2] + 1)

\* The cells given to moves.add, each at its first add, in the order of the
\* adds; a later add of the same cell leaves the set as it is.
FirstAdds(board) ==
    LET passes == {<<FirstPass(board, m), m>> :
                      m \in UNION {EmptyNeighbours(board, c[1], c[2]) :
                                     c \in {c \in Coords \X Coords :
                                               Cell(board, c[1], c[2]) # EMPTY}}}
    IN  [i \in 1 .. Cardinality(passes) |->
            (CHOOSE p \in passes :
                Cardinality({o \in passes : o[1] < p[1]}) = i - 1)[2]]

\* The set after moves.add of cells[lo], ..., cells[hi] in this order.
RECURSIVE AddRange(_, _, _, _)
AddRange(set, cells, lo, hi) ==
    IF lo > hi THEN set
    ELSE IF lo = hi THEN SetAdd(set, cells[lo])
    ELSE The({AddRange(first, cells, (lo + hi) \div 2 + 1, hi) :
                 first \in {AddRange(set, cells, lo, (lo + hi) \div 2)}})

\* The set moves at the return of get_valid_moves.
MovesSet(board) ==
    The({IF moves.used = 0
         THEN SetAdd(moves, <<BOARD_SIZE \div 2, BOARD_SIZE \div 2>>)
         ELSE moves :
           moves \in {The({AddRange(EmptySet, adds, 1, Len(adds)) :
                             adds \in {FirstAdds(board)}})}})

\* list(moves): the keys of the set in the order of the slots of its table.
get_valid_moves(board) ==
    The({TableOrder(moves.slots) : moves \in {MovesSet(board)}})

Range(list) == {list[i] : i \in 1 .. Len(list)}

Abs(n) == IF n < 0 THEN -n ELSE n

\* The sort key of minimax: Manhattan distance to the centre.
CentreDistance(m) ==
    Abs(m[1] - BOARD_SIZE \div 2) + Abs(m[2] - BOARD_SIZE \div 2)

\* moves.sort(key=...) puts moves[i] before moves[j]: the sort is stable.
Before(moves, i, j) ==
    \/ CentreDistance(moves[i]) < CentreDistance(moves[j])
    \/ CentreDistance(moves[i]) = CentreDistance(moves[j]) /\ i < j

SortedMoves(moves) ==
    LET ranked == {<<1 + Cardinality({j \in 1 .. Len(moves) : Before(moves, j, i)}),
                     moves[i]>> : i \in 1 .. Len(moves)}
    IN  SubSeq([r \in 1 .. Len(moves) |-> (CHOOSE p \in ranked : p[1] = r)[2]],
               1, Len(moves))

(***************************************************************************)
(* minimax.  A call returns (best_move, value) and leaves the board it     *)
(* worked on in place: Ret carries that board, path tells which return of  *)
(* the function was taken, and cutoffs counts the frames of the call tree  *)
(* that left their loop by break.                                          *)
(***************************************************************************)
Ret(move, value, board, path, cutoffs) ==
    [move |-> move, value |-> value, board |-> board, path |-> path,
     cutoffs |-> cutoffs]

\* minimax stopping one ply early.
IsLeafEarly(board, depth) == game_over(board) # NONE \/ depth <= 1

\* The four early returns of minimax, in the order of the source.
IsLeaf(board, depth) == game_over(board) # NONE \/ depth = 0

LeafScore(winner, board, player) ==
    IF winner = player THEN 1000000
    ELSE IF winner # NONE /\ winner # DRAW THEN -1000000
    ELSE IF winner = DRAW THEN 0
    ELSE evaluate(board, player)

\* minimax testing depth == 0 before the three tests on the winner.
LeafValueDepthFirst(board, depth, player) ==
    IF depth = 0 THEN evaluate(board, player)
    ELSE The({LeafScore(winner, board, player) : winner \in {game_over(board)}})

LeafValue(board, depth, player) ==
    The({LeafScore(winner, board, player) : winner \in {game_over(board)}})

Max(a, b) == IF a >= b THEN a ELSE b
Min(a, b) == IF a <= b THEN a ELSE b

\* if alpha >= beta: break   (maximizing frame)
BetaCutoff(alpha, beta) == alpha >= beta

\* The cutoff test of the minimizing frame the wrong way round.
AlphaCutoffReversed(alpha, beta) == beta >= alpha

\* if beta <= alpha: break   (minimizing frame)
AlphaCutoff(alpha, beta) == beta <= alpha

\* The maximizing frame replacing best_move on an equal value too.
BetterMaxOrEqual(val, value) == val >= value

\* if val > value   (maximizing)   and   if val < value   (minimizing)
BetterMax(val, value) == val > value
BetterMin(val, value) == val < value

\* board[x][y] = player / opponent   and   board[x][y] = EMPTY
Place(board, m, p) == SetCell(board, m[1], m[2], p)
\* A frame that does not take its stone back.
UndoSkipped(board, m) == board

Undo(board, m) == SetCell(board, m[1], m[2], EMPTY)

\* The locals of a frame: before the loop, and after one more iteration.
\* done tells that the loop has been left by break.
Locals(board, alpha, beta, value, best_move, done, cutoffs) ==
    [board |-> board, alpha |-> alpha, beta |-> beta, value |-> value,
     best_move |-> best_move, done |-> done, cutoffs |-> cutoffs]

\* The body of the maximizing loop for move m, f being the locals before it
\* and r what the recursive call returned (and the board as it left it).
MaxBody(f, m, r) ==
    LET better == BetterMax(r.value, f.value)
        value == IF better THEN r.value ELSE f.value
        alpha == Max(f.alpha, value)
    IN  Locals(Undo(r.board, m), alpha, f.beta, value,
               IF better THEN m ELSE f.best_move, BetaCutoff(alpha, f.beta),
               f.cutoffs + r.cutoffs)

\* The body of the minimizing loop for move m.
MinBody(f, m, r) ==
    LET better == BetterMin(r.value, f.value)
        value == IF better THEN r.value ELSE f.value
        beta == Min(f.beta, value)
    IN  Locals(Undo(r.board, m), f.alpha, beta, value,
               IF better THEN m ELSE f.best_move, AlphaCutoff(f.alpha, beta),
               f.cutoffs + r.cutoffs)

\* return best_move, value   after the loop
Return(f) ==
    Ret(f.best_move, f.value, f.board, IF f.done THEN "cutoff" ELSE "exhausted",
        f.cutoffs + (IF f.done THEN 1 ELSE 0))

RECURSIVE minimax(_, _, _, _, _, _)

\* One iteration of for x, y in moves of the maximizing frame, f being the
\* locals before it: nothing once the loop has been left by break.
MaxStep(moves, i, f, depth, player) ==
    IF f.done THEN f
    ELSE MaxBody(f, moves[i],
                 minimax(Place(f.board, moves[i], player),
                         depth - 1, f.alpha, f.beta, FALSE, player))

\* One iteration of the loop of the minimizing frame.
MinStep(moves, i, f, depth, player) ==
    IF f.done THEN f
    ELSE MinBody(f, moves[i],
                 minimax(Place(f.board, moves[i], Opponent(player)),
                         depth - 1, f.alpha, f.beta, TRUE, player))

\* The locals after the iterations lo .. hi of the loop, in that order, f
\* being the locals before them.
RECURSIVE MaxLoop(_, _, _, _, _, _)
MaxLoop(moves, lo, hi, f, depth, player) ==
    IF lo > hi THEN f
    ELSE IF lo = hi THEN The({MaxStep(moves, lo, g, depth, player) : g \in {f}})
    ELSE The({MaxLoop(moves, (lo + hi) \div 2 + 1, hi, g, depth, player) :
                 g \in {MaxLoop(moves, lo, (lo + hi) \div 2, f, depth, player)}})

RECURSIVE MinLoop(_, _, _, _, _, _)
MinLoop(moves, lo, hi, f, depth, player) ==
    IF lo > hi THEN f
    ELSE IF lo = hi THEN The({MinStep(moves, lo, g, depth, player) : g \in {f}})
    ELSE The({MinLoop(moves, (lo + hi) \div 2 + 1, hi, g, depth, player) :
                 g \in {MinLoop(moves, lo, (lo + hi) \div 2, f, depth, player)}})

minimax(board, depth, alpha, beta, maximizing, player) ==
    IF IsLeaf(board, depth)
    THEN Ret(None, LeafValue(board, depth, player), board, "leaf", 0)
    ELSE The({IF maximizing
              THEN Return(MaxLoop(moves, 1, Len(moves),
                                  Locals(board, alpha, beta, -INF, None, FALSE, 0),
                                  depth, player))
              ELSE Return(MinLoop(moves, 1, Len(moves),
                                  Locals(board, alpha, beta, INF, None, FALSE, 0),
                                  depth, player)) :
                 moves \in {SortedMoves(get_valid_moves(board))}})

(***************************************************************************)
(* ai_move: the outcomes of one call.  move is what it returns, score the  *)
(* value of the top-level search, fallback tells that the search returned  *)
(* no move, so that random.choice picked one among the candidates; board   *)
(* is the board as the call leaves it and cutoffs the cutoffs of the       *)
(* search.                                                                 *)
(***************************************************************************)
DEFAULT_DEPTH == 2

\* ai_move taking any of the candidates that the sort key of minimax puts
\* level with the move of the search.
ai_move_unordered(board, player, depth) ==
    UNION {{[move |-> m, score |-> r.value, fallback |-> r.move = None,
             board |-> r.board, cutoffs |-> r.cutoffs] :
               m \in IF r.move # None
                      THEN {c \in Range(get_valid_moves(r.board)) :
                               CentreDistance(c) = CentreDistance(r.move)}
                      ELSE Range(get_valid_moves(r.board))} :
           r \in {minimax(board, depth, -INF, INF, TRUE, player)}}

ai_move(board, player, depth) ==
    UNION {{[move |-> m, score |-> r.value, fallback |-> r.move = None,
             board |-> r.board, cutoffs |-> r.cutoffs] :
               m \in IF r.move # None THEN {r.move} ELSE Range(get_valid_moves(r.board))} :
           r \in {minimax(board, depth, -INF, INF, TRUE, player)}}

(***************************************************************************)
(* GomokuGUI.                                                              *)
(***************************************************************************)
CELL == 42
MARGIN == 40

\* round(v / CELL) of the source: Python 3 rounds a half to the even integer.
RoundDiv(v) ==
    LET q == v \div CELL
        r == v % CELL
    IN  IF 2 * r < CELL THEN q
        ELSE IF 2 * r > CELL THEN q + 1
        ELSE IF q % 2 = 0 THEN q ELSE q + 1

\* pixel_to_cell(px, py): (row, col), or None for (None, None).
pixel_to_cell(px, py) ==
    LET col == RoundDiv(px - MARGIN)
        row == RoundDiv(py - MARGIN)
    IN  IF in_bounds(row, col) THEN <<row, col>> ELSE None

VARIABLES
    board,        \* the board: self.board of the driver, the argument of a function
    player,       \* the player argument of the function applied
    depth,        \* the depth argument; self.depth in the driver
    pc,           \* which function has been applied to the inputs
    res,          \* what it returned
    human_vs_ai,  \* self.human_vs_ai
    current,      \* self.current
    finished,     \* self.finished
    pending,      \* ai_turn callbacks scheduled with root.after and not yet run
    script,       \* which click script the user follows
    ai_turns      \* ai_turn callbacks run so far

vars == <<board, player, depth, pc, res,
          human_vs_ai, current, finished, pending, script, ai_turns>>

gui_vars == <<human_vs_ai, current, finished, pending, script, ai_turns>>

\* The driver's fields while a function is applied on its own, and the
\* function's arguments while the driver runs.
GuiIdle ==
    /\ human_vs_ai = FALSE /\ current = BLACK /\ finished = FALSE
    /\ pending = 0 /\ script = 1 /\ ai_turns = 0

Players == {BLACK, WHITE}

(***************************************************************************)
(* Input boards of the detector, the evaluator and the move generator: a   *)
(* line of MaxLen cells of any colours from the edge of the board in each  *)
(* direction, with or without a second run of five of one colour, and two  *)
(* full boards (one without any five in a row, one all Black).             *)
(***************************************************************************)
MaxLen == 6

LineStart == << <<0, 7>>, <<7, 0>>, <<0, 0>>, <<0, 14>> >>

LineBoard(d, pat) ==
    LET f(x, y) ==
            LET hits == {i \in 1 .. MaxLen :
                            /\ LineStart[d][1] + DIRECTIONS[d][1] * (i - 1) = x
                            /\ LineStart[d][2] + DIRECTIONS[d][2] * (i - 1) = y}
            IN  IF hits = {} THEN EMPTY ELSE pat[CHOOSE i \in hits : TRUE]
    IN  Grid(f)

ExtraRun(b, p) ==
    LET f(x, y) == IF p # EMPTY /\ x = 3 /\ y \in 9 .. 13 THEN p ELSE Cell(b, x, y)
    IN  Grid(f)

FullMixed ==
    LET f(x, y) == IF ((x \div 2) + y) % 2 = 0 THEN BLACK ELSE WHITE
    IN  Grid(f)

FullBlack == LET f(x, y) == BLACK IN Grid(f)

LineBoards ==
    {LineBoard(d, pat) : d \in 1 .. Len(DIRECTIONS),
                         pat \in [1 .. MaxLen -> {EMPTY, BLACK, WHITE}]}

DetectorBoards ==
    {ExtraRun(b, p) : b \in LineBoards, p \in {EMPTY, BLACK, WHITE}}
        \cup {FullMixed, FullBlack}

EvaluatorBoards == LineBoards \cup {FullMixed, FullBlack}

(***************************************************************************)
(* The detector and the move generator applied to a board.                 *)
(***************************************************************************)
InitBoards ==
    /\ board \in DetectorBoards
    /\ player = BLACK /\ depth = 0
    /\ pc = "start" /\ res = None
    /\ GuiIdle

CallGameOver ==
    /\ pc = "start"
    /\ pc' = "game_over"
    /\ res' = game_over(board)
    /\ UNCHANGED <<board, player, depth, gui_vars>>

CallGetValidMoves ==
    /\ pc = "start"
    /\ pc' = "get_valid_moves"
    /\ res' = get_valid_moves(board)
    /\ UNCHANGED <<board, player, depth, gui_vars>>

NextBoards == CallGameOver \/ CallGetValidMoves

SpecBoards == InitBoards /\ [][NextBoards]_vars

(***************************************************************************)
(* The evaluator applied to a board for a player.                          *)
(***************************************************************************)
InitEval ==
    /\ board \in EvaluatorBoards
    /\ player \in Players
    /\ depth = 0
    /\ pc = "start" /\ res = None
    /\ GuiIdle

CallEvaluatePlayer ==
    /\ pc = "start"
    /\ pc' = "evaluate_player"
    /\ res' = evaluate_player(board, player)
    /\ UNCHANGED <<board, player, depth, gui_vars>>

NextEval == CallEvaluatePlayer

SpecEval == InitEval /\ [][NextEval]_vars

(***************************************************************************)
(* Input boards of the search: the empty board, one stone on the centre    *)
(* cell, a run of 1 .. MaxRun stones of one colour along the top edge from *)
(* the corner, open or closed by a stone of the other colour, and the two  *)
(* full boards.                                                            *)
(***************************************************************************)
MaxRun == 5

CentreBoard(p) ==
    SetCell(create_board, BOARD_SIZE \div 2, BOARD_SIZE \div 2, p)

RunBoard(n, p, closed) ==
    LET f(x, y) == IF x = 0 /\ y < n THEN p
                   ELSE IF x = 0 /\ y = n /\ closed THEN Opponent(p)
                   ELSE EMPTY
    IN  Grid(f)

SearchBoards ==
    {create_board, FullMixed, FullBlack}
        \cup {CentreBoard(p) : p \in Players}
        \cup {RunBoard(n, p, closed) : n \in 1 .. MaxRun, p \in Players, closed \in BOOLEAN}

\* The (alpha, beta) windows a frame is called with.
AlphaBeta == {<<-INF, INF>>, <<-10, 10>>}

InitSearch ==
    /\ board \in SearchBoards
    /\ player \in Players
    /\ depth \in 0 .. DEFAULT_DEPTH
   
    /\ pc = "start" /\ res = None
    /\ GuiIdle

(***************************************************************************)
(* One frame of minimax, called with any window and either value of        *)
(* maximizing.  board' is the board as the frame leaves it.                *)
(***************************************************************************)
CallMinimax ==
    /\ pc = "start"
    /\ \E maximizing \in BOOLEAN : \E w \in AlphaBeta :
          \E r \in {minimax(board, depth, w[1], w[2], maximizing, player)} :
              /\ board' = r.board
              /\ res' = [alpha |-> w[1], beta |-> w[2], maximizing |-> maximizing,
                         move |-> r.move, value |-> r.value, path |-> r.path,
                         cutoffs |-> r.cutoffs]
    /\ pc' = "minimax"
    /\ UNCHANGED <<player, depth, gui_vars>>

NextFrames == CallMinimax

SpecFrames == InitSearch /\ [][NextFrames]_vars

(***************************************************************************)
(* One call of ai_move, and a second call on the board the first one left. *)
(***************************************************************************)
CallAiMove ==
    /\ pc = "start"
    /\ \E o \in ai_move(board, player, depth) :
          /\ board' = o.board
          /\ res' = [move |-> o.move, score |-> o.score, fallback |-> o.fallback,
                     cutoffs |-> o.cutoffs]
    /\ pc' = "ai_move"
    /\ UNCHANGED <<player, depth, gui_vars>>

NextChoose == CallAiMove

SpecChoose == InitSearch /\ [][NextChoose]_vars

CallAiMoveAgain ==
    /\ pc = "ai_move"
    /\ \E o \in ai_move(board, player, depth) :
          /\ board' = o.board
          /\ res' = [first |-> res,
                     second |-> [move |-> o.move, score |-> o.score,
                                 fallback |-> o.fallback, cutoffs |-> o.cutoffs]]
    /\ pc' = "ai_move_again"
    /\ UNCHANGED <<player, depth, gui_vars>>

NextTwice == CallAiMove \/ CallAiMoveAgain

SpecTwice == InitSearch /\ [][NextTwice]_vars

(***************************************************************************)
(* The driver.  place_move(x, y): the fields of the driver after the call, *)
(* and whether it scheduled an ai_turn with root.after.                    *)
(***************************************************************************)
Placed(b, cur, fin, scheduled) ==
    [board |-> b, current |-> cur, finished |-> fin, scheduled |-> scheduled]

place_move(b, cur, fin, hva, x, y) ==
    The({IF game_over(nb) # NONE
         THEN Placed(nb, cur, TRUE, 0)
         ELSE Placed(nb, Opponent(cur), fin,
                     IF fin THEN 0
                     ELSE IF (hva /\ Opponent(cur) = BLACK) \/ ~hva THEN 1 ELSE 0) :
            nb \in {SetCell(b, x, y, cur)}})

\* on_click without the test of finished.
ClickIgnoredUnfinished(fin, hva, cur) == ~hva \/ cur # WHITE

\* on_click: the first return.
ClickIgnored(fin, hva, cur) == fin \/ ~hva \/ cur # WHITE

\* on_click: the second return, for the cell clicked.
ClickRejected(b, cell) == cell = None \/ Cell(b, cell[1], cell[2]) # EMPTY

(***************************************************************************)
(* The games played: in either mode from the empty board.  The user clicks *)
(* the cells of one of the Scripts in turn, at any moment, and also clicks *)
(* occupied cells and outside the grid; the pixel clicked is the crossing  *)
(* of the cell or ClickOffsets away from it.  In the first three scripts   *)
(* the user completes five, in the others the AI does; the last cell of a  *)
(* script is one that is still free when its game has ended, so the user   *)
(* goes on clicking a free cell after the end.  At most MaxAiTurns ai_turn *)
(* callbacks run.                                                          *)
(***************************************************************************)
MaxAiTurns == 7

Scripts ==
    << << <<3, 3>>, <<4, 2>>, <<3, 2>>, <<1, 4>>, <<2, 3>>, <<4, 1>>, <<0, 5>>,
          <<7, 7>> >>,
       << <<3, 3>>, <<2, 3>>, <<2, 4>>, <<4, 1>>, <<3, 2>>, <<1, 4>>, <<0, 5>>,
          <<7, 7>> >>,
       << <<3, 3>>, <<5, 3>>, <<3, 4>>, <<3, 5>>, <<4, 2>>, <<3, 1>>, <<6, 4>>,
          <<2, 0>>, <<7, 7>> >>,
       << <<1, 6>>, <<2, 10>>, <<0, 10>>, <<0, 6>>, <<2, 6>>, <<7, 7>> >>,
       << <<2, 11>>, <<3, 14>>, <<2, 13>>, <<1, 13>>, <<2, 14>>, <<7, 7>> >>,
       << <<2, 11>>, <<3, 13>>, <<0, 14>>, <<1, 13>>, <<3, 11>>, <<7, 7>> >>,
       << <<11, 6>>, <<10, 5>>, <<10, 3>>, <<13, 5>>, <<12, 0>>, <<7, 7>> >>,
       << <<3, 2>>, <<0, 1>>, <<3, 0>>, <<0, 0>>, <<1, 0>>, <<7, 7>> >>,
       << <<6, 2>>, <<8, 3>>, <<7, 0>>, <<6, 1>>, <<4, 0>>, <<7, 7>> >> >>

ClickOffsets == {0, CELL \div 2 - 1}

\* The cells the user may aim at: the occupied ones, and the next cell of the
\* script (the user has placed as many stones as there are White ones).
ClickCells ==
    (Stones(board, BLACK) \cup Stones(board, WHITE))
        \cup {Scripts[script][i] : i \in {i \in 1 .. Len(Scripts[script]) :
                                            i = Cardinality(Stones(board, WHITE)) + 1}}

ClickPixels ==
    {<<MARGIN + c[2] * CELL + o[1], MARGIN + c[1] * CELL + o[2]>> :
        c \in ClickCells, o \in ClickOffsets \X ClickOffsets} \cup {<<0, 0>>}

InitGame ==
    /\ human_vs_ai \in BOOLEAN
    /\ board = create_board
    /\ current = (IF human_vs_ai THEN WHITE ELSE BLACK)
    /\ finished = FALSE
    /\ pending = (IF human_vs_ai THEN 0 ELSE 1)
    /\ script \in (IF human_vs_ai THEN 1 .. Len(Scripts) ELSE {1})
    /\ ai_turns = 0
    /\ depth = DEFAULT_DEPTH
   
    /\ player = BLACK /\ pc = "start" /\ res = None

Apply(p, ran) ==
    /\ board' = p.board
    /\ current' = p.current
    /\ finished' = p.finished
    /\ pending' = pending - ran + p.scheduled

OnClick ==
    /\ \E px \in ClickPixels :
          IF ClickIgnored(finished, human_vs_ai, current) THEN UNCHANGED vars
          ELSE \E cell \in {pixel_to_cell(px[1], px[2])} :
                  IF ClickRejected(board, cell) THEN UNCHANGED vars
                  ELSE /\ Apply(place_move(board, current, finished, human_vs_ai,
                                           cell[1], cell[2]), 0)
                       /\ UNCHANGED <<human_vs_ai, script, ai_turns,
                                      player, depth, pc, res>>

AiTurn ==
    /\ pending > 0
    /\ ai_turns < MaxAiTurns
    /\ ai_turns' = ai_turns + 1
    /\ IF finished
       THEN /\ pending' = pending - 1
            /\ UNCHANGED <<board, current, finished>>
       ELSE \E o \in ai_move(board, current, depth) :
               Apply(place_move(o.board, current, finished, human_vs_ai,
                                o.move[1], o.move[2]), 1)
    /\ UNCHANGED <<human_vs_ai, script, player, depth, pc, res>>

NextGame == OnClick \/ AiTurn

SpecGame == InitGame /\ [][NextGame]_vars

(***************************************************************************)
(* C3.  What game_over must return, stated without check_five: a run is    *)
(* five cells in a row, in one direction, all of one player.               *)
(***************************************************************************)
RunFrom(b, x, y, d, p) ==
    \A i \in 0 .. (WIN_LEN - 1) :
        /\ in_bounds(x + DIRECTIONS[d][1] * i, y + DIRECTIONS[d][2] * i)
        /\ Cell(b, x + DIRECTIONS[d][1] * i, y + DIRECTIONS[d][2] * i) = p

LiesInRun(b, x, y) ==
    /\ Cell(b, x, y) # EMPTY
    /\ \E d \in 1 .. Len(DIRECTIONS) : \E k \in 0 .. (WIN_LEN - 1) :
          RunFrom(b, x - DIRECTIONS[d][1] * k, y - DIRECTIONS[d][2] * k, d, Cell(b, x, y))

RunCells(b) == {c \in Coords \X Coords : LiesInRun(b, c[1], c[2])}

RowMajorFirst(S) ==
    CHOOSE c \in S : \A o \in S : c[1] * BOARD_SIZE + c[2] <= o[1] * BOARD_SIZE + o[2]

Outcome(b) ==
    IF RunCells(b) # {}
    THEN LET c == RowMajorFirst(RunCells(b)) IN Cell(b, c[1], c[2])
    ELSE IF \A c \in Coords \X Coords : Cell(b, c[1], c[2]) # EMPTY THEN DRAW
    ELSE NONE

\* C3: game_over returns the owner of the first cell, in row-major order, that
\* lies in a run of five or more; 'draw' when there is no run and no empty
\* cell; None otherwise.
C3_GameOverClassifies == pc = "game_over" => res = Outcome(board)

\* Both players have a run on the board, and game_over has answered.
C3_Witness ==
    /\ pc = "game_over"
    /\ \E c \in RunCells(board) : Cell(board, c[1], c[2]) = BLACK
    /\ \E c \in RunCells(board) : Cell(board, c[1], c[2]) = WHITE
    /\ res = WHITE

(***************************************************************************)
(* C4.  The score table of the specification, and the table with the three *)
(* entries of its open_ends = 0 column that the code computes otherwise.   *)
(***************************************************************************)
SpecTable(cnt, open_ends) ==
    IF cnt >= 5 THEN 100000
    ELSE IF open_ends = 0 \/ cnt < 2 THEN 0
    ELSE IF cnt = 4 THEN (IF open_ends = 2 THEN 10000 ELSE 1000)
    ELSE IF cnt = 3 THEN (IF open_ends = 2 THEN 500 ELSE 100)
    ELSE (IF open_ends = 2 THEN 10 ELSE 2)

AmendedTable(cnt, open_ends) ==
    IF cnt >= 5 THEN 100000
    ELSE IF cnt < 2 THEN 0
    ELSE IF cnt = 4 THEN (IF open_ends = 2 THEN 10000 ELSE 1000)
    ELSE IF cnt = 3 THEN (IF open_ends = 2 THEN 500 ELSE 100)
    ELSE (IF open_ends = 2 THEN 10 ELSE 2)

\* The windows of two or more stones of p and none of the other player: the
\* only ones either table gives a score.
ScoringWindows(b, p) ==
    {w \in Coords \X Coords \X (1 .. Len(DIRECTIONS)) :
        WindowCount(b, w[1], w[2], w[3], p) >= 2}

OwnStones(b, w, p) ==
    Cardinality({i \in 0 .. (WIN_LEN - 1) :
        Cell(b, w[1] + DIRECTIONS[w[3]][1] * i, w[2] + DIRECTIONS[w[3]][2] * i) = p})

OpenEnds(b, w) ==
    Cardinality({e \in {<<w[1] - DIRECTIONS[w[3]][1], w[2] - DIRECTIONS[w[3]][2]>>,
                        <<w[1] + DIRECTIONS[w[3]][1] * WIN_LEN,
                          w[2] + DIRECTIONS[w[3]][2] * WIN_LEN>>} :
                    in_bounds(e[1], e[2]) /\ Cell(b, e[1], e[2]) = EMPTY})

RECURSIVE SumOver(_, _, _, _)
SumOver(S, b, p, amended) ==
    IF S = {} THEN 0
    ELSE LET w == CHOOSE w \in S : TRUE
         IN  (IF amended THEN AmendedTable(OwnStones(b, w, p), OpenEnds(b, w))
                         ELSE SpecTable(OwnStones(b, w, p), OpenEnds(b, w)))
               + SumOver(S \ {w}, b, p, amended)

\* C4 as the specification has it: a window adds SpecTable(count, open_ends),
\* nothing for 2, 3 or 4 stones with no open end, and evaluate_player is the
\* sum of that over the windows.
C4_SpecTable ==
    pc = "evaluate_player" =>
        LET S == ScoringWindows(board, player)
        IN  /\ \A w \in S :
                  WindowScore(board, w[1], w[2], w[3], player)
                      = SpecTable(OwnStones(board, w, player), OpenEnds(board, w))
            /\ res = SumOver(S, board, player, FALSE)

\* C4 amended: with no open end 4, 3 and 2 stones add 1000, 100 and 2, as with
\* one open end; the rest of the table is as specified.
C4_AmendedTable ==
    pc = "evaluate_player" =>
        LET S == ScoringWindows(board, player)
        IN  /\ \A w \in S :
                  WindowScore(board, w[1], w[2], w[3], player)
                      = AmendedTable(OwnStones(board, w, player), OpenEnds(board, w))
            /\ res = SumOver(S, board, player, TRUE)

\* A window of four own stones and no open end has been scored.
C4_Witness ==
    /\ pc = "evaluate_player"
    /\ \E w \in ScoringWindows(board, player) :
          OwnStones(board, w, player) = 4 /\ OpenEnds(board, w) = 0
    /\ res >= 1000

(***************************************************************************)
(* C5.  The candidate set of the specification.                            *)
(***************************************************************************)
Occupied(b) == {c \in Coords \X Coords : Cell(b, c[1], c[2]) # EMPTY}

Adjacent(a, c) == a # c /\ Abs(a[1] - c[1]) <= 1 /\ Abs(a[2] - c[2]) <= 1

Frontier(b) ==
    LET occupied == Occupied(b)
    IN  {c \in (Coords \X Coords) \ occupied : \E o \in occupied : Adjacent(o, c)}

\* C5: the centre cell alone on the empty board; on any other board exactly
\* the empty cells next to a stone, so that every cell returned is empty.
C5_CandidateMoves ==
    pc = "get_valid_moves" =>
        IF Occupied(board) = {}
        THEN Range(res) = {<<BOARD_SIZE \div 2, BOARD_SIZE \div 2>>}
        ELSE Range(res) = Frontier(board)

(***************************************************************************)
(* C1.                                                                     *)
(***************************************************************************)
\* C1: a frame of minimax, and with it ai_move, leaves every cell of the board
\* with the value it had before the call, on every return path of the frame,
\* the return after a cutoff included.
C1_BoardRestored == [][pc' = "minimax" => board' = board]_vars

\* A frame of depth >= 1 has placed stones and returned after a cutoff.
C1_Witness ==
    /\ pc = "minimax"
    /\ depth >= 1
    /\ res.path = "cutoff"
    /\ res.move # None

(***************************************************************************)
(* C2.  The recursion of minimax without its two cutoff tests: every       *)
(* candidate of every frame is searched.                                   *)
(***************************************************************************)
SetMax(S) == CHOOSE v \in S : \A o \in S : o <= v
SetMin(S) == CHOOSE v \in S : \A o \in S : v <= o

RECURSIVE FullMinimax(_, _, _, _)
FullMinimax(b, d, maximizing, p) ==
    IF game_over(b) # NONE \/ d = 0
    THEN LeafScore(game_over(b), b, p)
    ELSE IF maximizing
         THEN SetMax({FullMinimax(Place(b, m, p), d - 1, FALSE, p) :
                         m \in ValidMoves(b)})
         ELSE SetMin({FullMinimax(Place(b, m, Opponent(p)), d - 1, TRUE, p) :
                         m \in ValidMoves(b)})

\* C2: the score of the top-level search (alpha = -inf, beta = +inf,
\* maximizing) is the score of the full, unpruned minimax.
C2_PruningKeepsScore ==
    pc = "ai_move" => res.score = FullMinimax(board, depth, TRUE, player)

\* A search of depth 2 in which frames were cut off has returned a move.
C2_Witness ==
    /\ pc = "ai_move"
    /\ depth = DEFAULT_DEPTH
    /\ res.cutoffs > 0
    /\ ~res.fallback

(***************************************************************************)
(* C6.                                                                     *)
(***************************************************************************)
\* C6: whatever the depth and maximizing, a frame on a board won by player
\* returns (None, 1000000), on a board won by the other player (None,
\* -1000000), on a drawn board (None, 0); on a board in progress with depth 0
\* it returns (None, evaluate(board, player)).
C6_TerminalBeforeDepth ==
    pc = "minimax" =>
        LET winner == game_over(board)
        IN  /\ winner = player => res.move = None /\ res.value = 1000000
            /\ winner = Opponent(player) => res.move = None /\ res.value = -1000000
            /\ winner = DRAW => res.move = None /\ res.value = 0
            /\ winner = NONE /\ depth = 0 =>
                   res.move = None /\ res.value = evaluate(board, player)

\* A frame of depth 0 on a board the other player has won.
C6_Witness ==
    /\ pc = "minimax"
    /\ depth = 0
    /\ game_over(board) = Opponent(player)
    /\ res.value = -1000000

C8_NoFallback == pc = "ai_move" => ~res.fallback

\* C8 amended: the candidate set is never empty, and ai_move takes the random
\* fallback exactly when the board is over or depth is 0, the two cases in
\* which the top-level frame returns no move.
C8_FallbackAtLeaf ==
    pc = "ai_move" =>
        /\ get_valid_moves(board) # <<>>
        /\ res.fallback <=> (game_over(board) # NONE \/ depth = 0)

\* ai_move called with depth 2 on a board that is over took the fallback.
C8_Witness ==
    /\ pc = "ai_move"
    /\ depth = DEFAULT_DEPTH
    /\ game_over(board) # NONE
    /\ res.fallback
    /\ res.move \in ValidMoves(board)

(***************************************************************************)
(* C9.                                                                     *)
(***************************************************************************)
\* The full minimax value of candidate m of the maximizing top-level frame.
ChildValue(b, d, p, m) == FullMinimax(Place(b, m, p), d - 1, FALSE, p)

\* C9: on a board in progress with depth >= 1 the move returned is a
\* candidate whose full minimax value is the score of the search, and no
\* candidate nearer to the centre has that value.
C9_FirstBestMove ==
    pc = "ai_move" /\ depth >= 1 /\ game_over(board) = NONE =>
        /\ res.move \in ValidMoves(board)
        /\ ChildValue(board, depth, player, res.move) = res.score
        /\ \A m \in ValidMoves(board) :
              CentreDistance(m) < CentreDistance(res.move) =>
                  ChildValue(board, depth, player, m) # res.score

\* The move returned ties with a candidate farther from the centre.
C9_Witness ==
    /\ pc = "ai_move"
    /\ depth >= 1
    /\ game_over(board) = NONE
    /\ \E m \in ValidMoves(board) :
          /\ CentreDistance(m) > CentreDistance(res.move)
          /\ ChildValue(board, depth, player, m) = res.score

(***************************************************************************)
(* C10.                                                                    *)
(***************************************************************************)
StoneCountsBalanced ==
    LET n == Cardinality(Stones(board, BLACK)) - Cardinality(Stones(board, WHITE))
    IN  n \in {-1, 0, 1}

LegalPlacement ==
    board' # board =>
        /\ ~finished
        /\ \E c \in Coords \X Coords :
              /\ Cell(board, c[1], c[2]) = EMPTY
              /\ board' = SetCell(board, c[1], c[2], current)

\* C10: in every game the board changes only by the mover's stone written on
\* an empty cell, never once finished is set, and the numbers of Black and
\* White stones differ by at most one.
C10_LegalGame == []StoneCountsBalanced /\ [][LegalPlacement]_vars

\* The user has completed five: the game is finished with White still the
\* mover and no ai_turn scheduled, and the user aims at a free cell.
C10_Witness ==
    /\ human_vs_ai
    /\ finished
    /\ current = WHITE
    /\ pending = 0
    /\ game_over(board) = WHITE
    /\ \E c \in ClickCells : ~ClickRejected(board, c)
====
